---- MODULE Spec2Model ----
(***************************************************************************)
(* align_families.py: the family/duplex grouper of main(), the worker pool *)
(* (open_workers, delegate, the final drain loop), worker_function and     *)
(* process_duplex, as a state machine.                                     *)
(*                                                                         *)
(* One input line is one step of main's loop.  A read pair is named by the *)
(* position of its line in the input (names are distinct per line); an     *)
(* output line is the record of its barcode, order, mate and read name.    *)
(* Python 2 semantics (dict.keys() is a list, OrderedDict keeps the        *)
(* position of a key that is assigned again).                              *)
(***************************************************************************)
EXTENDS Integers, Sequences, FiniteSets, TLC

\* Bounds of the model.
MaxRows == 4
MaxPool == 3

\* The alphabet the input lines are drawn from.
Barcodes == {"A", "B"}
Orders == {"ab", "ba", "xx"}
None == "None"

\* An input line: nf is the number of tab-separated fields it splits into.
WellFormed == [nf : {8}, bar : Barcodes, ord : Orders]
Malformed == {[nf |-> 5, bar |-> "A", ord |-> "ab"]}
Lines == WellFormed \cup Malformed

VARIABLES
  processes,         \* args.processes
  rows,              \* the lines read from infile so far
  pc,                \* where main is
  line,              \* the fields of the line being handled while main is in delegate
  barcode, order,    \* main's barcode, order
  family,            \* main's family: a list of read pairs
  duplex,            \* main's duplex: an OrderedDict, a list of (key, val)
  stats,             \* main's stats (time left out)
  current_worker_i,  \* main's current_worker_i
  drain_i,           \* the i of the final loop over the workers
  workers,           \* the list of workers: slot -> process
  procs,             \* every worker process ever opened, with its two pipe ends
  out,               \* sys.stdout: the lines written
  err,               \* sys.stderr: the 'Worker died' messages
  sent,              \* history: the Jobs sent, in the order of delegate's calls
  computed,          \* history: what the worker computed for each Job sent
  af_pc,             \* where one call of align_family and its format_msa is
  af_family, af_mate,\* align_family's family, mate
  family_file,       \* make_msa's temporary file
  mafft_output,      \* make_msa's output: what MAFFT printed
  seq_alignment,     \* align_family's seq_alignment
  af_alignment,      \* process_duplex's alignment
  msa_lines,         \* what format_msa returns for the alignment
  mafft_calls        \* history: the invocations of MAFFT

\* main's and the workers' variables
mvars == <<processes, rows, pc, line, barcode, order, family, duplex, stats,
           current_worker_i, drain_i, workers, procs, out, err, sent, computed>>

\* the variables of one call of align_family
avars == <<af_pc, af_family, af_mate, family_file, mafft_output, seq_alignment,
           af_alignment, msa_lines, mafft_calls>>

vars == <<mvars, avars>>

\* No call of align_family is followed.
AlignIdle ==
  /\ af_pc = "idle"
  /\ af_family = <<>>
  /\ af_mate = 1
  /\ family_file = [exists |-> FALSE, lines |-> <<>>]
  /\ mafft_output = <<>>
  /\ seq_alignment = <<>>
  /\ af_alignment = [none |-> TRUE, recs |-> <<>>]
  /\ msa_lines = <<>>
  /\ mafft_calls = 0

----------------------------------------------------------------------------
\* OrderedDict

\* The keys of a dict that does not keep insertion order, here the reverse.
KeysReversed(d) == [i \in 1..Len(d) |-> d[Len(d) + 1 - i].key]

\* duplex.keys(): the keys in the order they were first assigned.
Keys(d) == [i \in 1..Len(d) |-> d[i].key]

HasKey(d, k) == \E i \in 1..Len(d) : d[i].key = k

Get(d, k) == d[CHOOSE i \in 1..Len(d) : d[i].key = k].val

\* d[k] = v: a key already present keeps its position and gets the new value.
DictSet(d, k, v) ==
  IF HasKey(d, k)
  THEN [i \in 1..Len(d) |-> IF d[i].key = k THEN [key |-> k, val |-> v] ELSE d[i]]
  ELSE Append(d, [key |-> k, val |-> v])

----------------------------------------------------------------------------
\* make_msa, align_family, format_msa, process_duplex

NoAlignment == [none |-> TRUE, recs |-> <<>>]

\* make_msa and align_family: None for an empty family, the one read as it is
\* for a family of one, else MAFFT's records (in input order) or None when the
\* invocation fails (ok = FALSE).
align_family(fam, mate, ok) ==
  IF Len(fam) = 0 THEN NoAlignment
  ELSE IF Len(fam) = 1 THEN [none |-> FALSE, recs |-> <<[name |-> <<fam[1], mate>>]>>]
  ELSE IF ok THEN [none |-> FALSE, recs |-> [i \in 1..Len(fam) |-> [name |-> <<fam[i], mate>>]]]
  ELSE NoAlignment

format_msa(align, bar, ord, mate) ==
  [i \in 1..Len(align) |-> [bar |-> bar, ord |-> ord, mate |-> mate, name |-> align[i].name]]

\* The (mate, order) pairs in the order of two separate strands.
CombosStraight(orders) ==
  IF Len(orders) = 1
  THEN << <<1, orders[1]>>, <<2, orders[1]>> >>
  ELSE << <<1, orders[1]>>, <<2, orders[1]>>, <<1, orders[2]>>, <<2, orders[2]>> >>

\* combos of process_duplex, for one or two orders.
Combos(orders) ==
  IF Len(orders) = 1
  THEN << <<1, orders[1]>>, <<2, orders[1]>> >>
  ELSE << <<1, orders[1]>>, <<2, orders[2]>>, <<2, orders[1]>>, <<1, orders[2]>> >>

EmptyRunStats == [runs |-> 0, aligned_pairs |-> 0]

\* Families of one read pair counted too.
CountsAny(pairs) == pairs > 0

\* if pairs > 1: the entry adds to time, runs and aligned_pairs.
Counts(pairs) == pairs > 1

\* The loop of process_duplex over combos, from entry i on; bad is the set of
\* entries whose MAFFT invocation fails.
RECURSIVE RunCombos(_, _, _, _, _)
RunCombos(d, bar, combos, bad, i) ==
  IF i > Len(combos) THEN [output |-> <<>>, run_stats |-> EmptyRunStats]
  ELSE LET mate == combos[i][1]
           ord == combos[i][2]
           fam == Get(d, ord)
           alignment == align_family(fam, mate, i \notin bad)
           pairs == Len(fam)
           rest == RunCombos(d, bar, combos, bad, i + 1)
           lines == IF alignment.none THEN <<>>
                    ELSE format_msa(alignment.recs, bar, ord, mate)
       IN [output |-> lines \o rest.output,
           run_stats |->
             [runs |-> (IF Counts(pairs) THEN 1 ELSE 0) + rest.run_stats.runs,
              aligned_pairs |-> (IF Counts(pairs) THEN pairs ELSE 0)
                                + rest.run_stats.aligned_pairs]]

\* The entries of combos that go to MAFFT: those of families of two or more.
MafftEntries(d) ==
  IF Len(d) \in {1, 2} /\ ~HasKey(d, None)
  THEN {i \in 1..Len(Combos(Keys(d))) : Len(Get(d, Combos(Keys(d))[i][2])) > 1}
  ELSE {}

\* An alignment of None taken for an error.
process_duplex_strict(d, bar, bad) ==
  IF Len(d) = 0 \/ HasKey(d, None)
  THEN [raised |-> FALSE, output |-> <<>>, run_stats |-> EmptyRunStats]
  ELSE IF Len(d) > 2 \/ bad # {}
  THEN [raised |-> TRUE, output |-> <<>>, run_stats |-> EmptyRunStats]
  ELSE LET r == RunCombos(d, bar, Combos(Keys(d)), bad, 1)
       IN [raised |-> FALSE, output |-> r.output, run_stats |-> r.run_stats]

\* process_duplex: raised is the AssertionError of more than two orders.
process_duplex(d, bar, bad) ==
  IF Len(d) = 0 \/ HasKey(d, None)
  THEN [raised |-> FALSE, output |-> <<>>, run_stats |-> EmptyRunStats]
  ELSE IF Len(d) > 2
  THEN [raised |-> TRUE, output |-> <<>>, run_stats |-> EmptyRunStats]
  ELSE LET r == RunCombos(d, bar, Combos(Keys(d)), bad, 1)
       IN [raised |-> FALSE, output |-> r.output, run_stats |-> r.run_stats]

----------------------------------------------------------------------------
\* Messages on a worker's pipe

Job(d, bar, k) == [type |-> "job", duplex |-> d, barcode |-> bar, k |-> k]
Shutdown == [type |-> "shutdown"]
Result(output, run_stats) == [type |-> "result", output |-> output, run_stats |-> run_stats]
\* (None, None)
Sentinel == [type |-> "sentinel"]
NoJob == [type |-> "none"]

\* open_worker: a process blocked in child_pipe.recv(), both pipe directions empty.
\* received and replies are history: the Jobs it received, the messages it sent.
open_worker == [state |-> "waiting", inbox |-> <<>>, outbox |-> <<>>, job |-> NoJob,
                received |-> 0, replies |-> 0]

\* open_workers
open_workers(n) == [i \in 1..n |-> open_worker]

Pending == [state |-> "pending", output |-> <<>>, run_stats |-> EmptyRunStats, bad |-> {}]

----------------------------------------------------------------------------
MainInit ==
  /\ processes \in 1..MaxPool
  /\ rows = <<>>
  /\ pc = "loop"
  /\ line = [nf |-> 0, bar |-> None, ord |-> None]
  /\ barcode = None
  /\ order = None
  /\ family = <<>>
  /\ duplex = <<>>
  /\ stats = [duplexes |-> 0, pairs |-> 0, runs |-> 0, aligned_pairs |-> 0]
  /\ current_worker_i = 0
  /\ drain_i = 0
  /\ procs = open_workers(processes)
  /\ workers = [i \in 1..processes |-> i]
  /\ out = <<>>
  /\ err = <<>>
  /\ sent = <<>>
  /\ computed = <<>>

Init == MainInit /\ AlignIdle

----------------------------------------------------------------------------
\* main: the grouper

\* "If the barcode or order has changed, we're in a new family."
NewFamily(this_barcode, this_order, bar, ord) == this_barcode # bar \/ this_order # ord

\* The barcode test forgotten: every new family ends the duplex.
NewDuplexAlways(this_barcode, bar) == TRUE

\* "If the barcode is different, we're at the end of the whole duplex."
NewDuplex(this_barcode, bar) == this_barcode # bar

\* The pair appended to the family that was started and never emptied.
StartFamilyEmpty(pair) == <<>>

\* family = [] and then family.append(pair)
StartFamily(pair) == <<pair>>

\* The test of the field count left out: every line is unpacked.
SkippedNever(l) == FALSE

\* if len(fields) != 8: continue
Skipped(l) == l.nf # 8

\* One iteration of "for line in infile", up to the call of delegate if there
\* is one.  The read pair of the line is named Len(rows').
ReadLine(l) ==
  /\ pc = "loop"
  /\ Len(rows) < MaxRows
  /\ rows' = Append(rows, l)
  /\ IF Skipped(l)
     THEN UNCHANGED <<pc, line, barcode, order, family, duplex, stats>>
     ELSE IF NewFamily(l.bar, l.ord, barcode, order)
     THEN /\ duplex' = DictSet(duplex, order, family)
          /\ IF NewDuplex(l.bar, barcode)
             THEN /\ pc' = "delegate"
                  /\ line' = l
                  /\ UNCHANGED <<barcode, order, family, stats>>
             ELSE /\ barcode' = l.bar
                  /\ order' = l.ord
                  /\ family' = StartFamily(Len(rows) + 1)
                  /\ stats' = [stats EXCEPT !.pairs = @ + 1]
                  /\ UNCHANGED <<pc, line>>
     ELSE /\ family' = Append(family, Len(rows) + 1)
          /\ stats' = [stats EXCEPT !.pairs = @ + 1]
          /\ UNCHANGED <<pc, line, barcode, order, duplex>>
  /\ UNCHANGED avars
  /\ UNCHANGED <<processes, current_worker_i, drain_i, workers, procs, out, err,
                 sent, computed>>

\* The end of infile: "Process the last family", up to the call of delegate.
EndOfInput ==
  /\ pc = "loop"
  /\ duplex' = DictSet(duplex, order, family)
  /\ pc' = "last_delegate"
  /\ UNCHANGED avars
  /\ UNCHANGED <<processes, rows, line, barcode, order, family, stats,
                 current_worker_i, drain_i, workers, procs, out, err, sent, computed>>

----------------------------------------------------------------------------
\* delegate and process_results

\* worker_i = stats['duplexes'] % len(workers)
WorkerIndex(dups, n) == dups % n

\* The receive skipped for one duplex too many.
HasPreviousLate(dups, n) == dups > n

\* "Receive results from the last duplex the worker processed, if any."
HasPrevious(dups, n) == dups >= n

\* The Job sent to the worker that was looked up before the replacement.
TargetStale(p, died, fresh) == p

\* The worker the Job is sent to: worker = open_worker() when the old one died.
Target(p, died, fresh) == IF died THEN fresh ELSE p

\* delegate(workers, stats, duplex, barcode) followed by
\* process_results(output, run_stats, stats).  It blocks in parent_pipe.recv()
\* until the worker's Result is there.  pairs is what the caller adds to
\* stats['pairs'] afterwards.
delegate(pairs) ==
  LET worker_i == WorkerIndex(stats.duplexes, Len(workers))
      p == workers[worker_i + 1]
      recv == HasPrevious(stats.duplexes, Len(workers))
  IN /\ recv => Len(procs[p].outbox) > 0
     /\ LET msg == IF recv THEN Head(procs[p].outbox) ELSE Result(<<>>, EmptyRunStats)
            died == msg.type = "sentinel"
            procs1 == IF recv THEN [procs EXCEPT ![p].outbox = Tail(@)] ELSE procs
            procs2 == IF died THEN Append(procs1, open_worker) ELSE procs1
            q == Target(p, died, Len(procs2))
            res == IF died THEN Result(<<>>, EmptyRunStats) ELSE msg
            args == Job(duplex, barcode, stats.duplexes + 1)
        IN /\ procs' = [procs2 EXCEPT ![q].inbox = Append(@, args)]
           /\ workers' = [workers EXCEPT ![worker_i + 1] = q]
           /\ err' = IF died THEN Append(err, p) ELSE err
           /\ stats' = [duplexes |-> stats.duplexes + 1,
                        pairs |-> stats.pairs + pairs,
                        runs |-> stats.runs + res.run_stats.runs,
                        aligned_pairs |-> stats.aligned_pairs + res.run_stats.aligned_pairs]
           /\ out' = out \o res.output
           /\ current_worker_i' = worker_i
           /\ sent' = Append(sent, [duplex |-> duplex, barcode |-> barcode,
                                    slot |-> worker_i, proc |-> q])
           /\ computed' = Append(computed, Pending)

\* The call of delegate inside the loop and the rest of the iteration.
DelegateInLoop ==
  /\ pc = "delegate"
  /\ delegate(1)
  /\ duplex' = <<>>
  /\ barcode' = line.bar
  /\ order' = line.ord
  /\ family' = StartFamily(Len(rows))
  /\ pc' = "loop"
  /\ UNCHANGED avars
  /\ UNCHANGED <<processes, rows, line, drain_i>>

\* The call of delegate after the loop.
DelegateLast ==
  /\ pc = "last_delegate"
  /\ delegate(0)
  /\ pc' = "drain"
  /\ drain_i' = 0
  /\ UNCHANGED avars
  /\ UNCHANGED <<processes, rows, line, barcode, order, family, duplex>>

----------------------------------------------------------------------------
\* main: "one last loop through the workers"

\* The loop started at the worker last sent to.
DrainStartSame(cur) == cur

\* start = current_worker_i + 1
DrainStart(cur) == cur + 1

\* worker_i = (start + i) % args.processes
DrainIndex(start, i, n) == (start + i) % n

DrainProc == workers[DrainIndex(DrainStart(current_worker_i), drain_i, processes) + 1]

\* One iteration: the Result is received, process_results merges it, None is sent.
DrainResult ==
  /\ pc = "drain"
  /\ Len(procs[DrainProc].outbox) > 0
  /\ LET p == DrainProc
         msg == Head(procs[p].outbox)
     IN /\ msg.type = "result"
        /\ stats' = [stats EXCEPT !.runs = @ + msg.run_stats.runs,
                                  !.aligned_pairs = @ + msg.run_stats.aligned_pairs]
        /\ out' = out \o msg.output
        /\ procs' = [procs EXCEPT ![p].outbox = Tail(@), ![p].inbox = Append(@, Shutdown)]
        /\ drain_i' = drain_i + 1
        /\ pc' = IF drain_i + 1 = Len(workers) THEN "done" ELSE "drain"
  /\ UNCHANGED avars
  /\ UNCHANGED <<processes, rows, line, barcode, order, family, duplex,
                 current_worker_i, workers, err, sent, computed>>

\* One iteration that receives (None, None): process_results calls
\* run_stats.items() on None, and the AttributeError ends main.
DrainSentinel ==
  /\ pc = "drain"
  /\ Len(procs[DrainProc].outbox) > 0
  /\ LET p == DrainProc
         msg == Head(procs[p].outbox)
     IN /\ msg.type = "sentinel"
        /\ procs' = [procs EXCEPT ![p].outbox = Tail(@)]
        /\ pc' = "crashed"
  /\ UNCHANGED avars
  /\ UNCHANGED <<processes, rows, line, barcode, order, family, duplex, stats,
                 current_worker_i, drain_i, workers, out, err, sent, computed>>

----------------------------------------------------------------------------
\* worker_function

\* The exception caught and not raised again: the loop goes on.
AfterRaiseGoesOn == "waiting"

\* raise, after child_pipe.send((None, None)): the process ends.
AfterRaise == "dead"

\* args = child_pipe.recv(); None ends the loop.
WorkerRecv(p) ==
  /\ procs[p].state = "waiting"
  /\ Len(procs[p].inbox) > 0
  /\ LET args == Head(procs[p].inbox)
     IN procs' = [procs EXCEPT ![p].inbox = Tail(@),
                               ![p].state = IF args.type = "shutdown" THEN "exited" ELSE "busy",
                               ![p].job = IF args.type = "shutdown" THEN NoJob ELSE args,
                               ![p].received = IF args.type = "shutdown" THEN @ ELSE @ + 1]
  /\ UNCHANGED avars
  /\ UNCHANGED <<processes, rows, pc, line, barcode, order, family, duplex, stats,
                 current_worker_i, drain_i, workers, out, err, sent, computed>>

\* child_pipe.send(process_duplex(*args)), or (None, None) and the exception
\* raised again, which ends the process.
WorkerProcess(p) ==
  /\ procs[p].state = "busy"
  /\ \E bad \in SUBSET MafftEntries(procs[p].job.duplex) :
       LET args == procs[p].job
           r == process_duplex(args.duplex, args.barcode, bad)
       IN IF r.raised
          THEN /\ procs' = [procs EXCEPT ![p].outbox = Append(@, Sentinel),
                                         ![p].state = AfterRaise,
                                         ![p].job = NoJob,
                                         ![p].replies = @ + 1]
               /\ computed' = [computed EXCEPT ![args.k] =
                                 [state |-> "raised", output |-> <<>>,
                                  run_stats |-> EmptyRunStats, bad |-> bad]]
          ELSE /\ procs' = [procs EXCEPT ![p].outbox = Append(@, Result(r.output, r.run_stats)),
                                         ![p].state = "waiting",
                                         ![p].job = NoJob,
                                         ![p].replies = @ + 1]
               /\ computed' = [computed EXCEPT ![args.k] =
                                 [state |-> "returned", output |-> r.output,
                                  run_stats |-> r.run_stats, bad |-> bad]]
  /\ UNCHANGED avars
  /\ UNCHANGED <<processes, rows, pc, line, barcode, order, family, duplex, stats,
                 current_worker_i, drain_i, workers, out, err, sent>>

----------------------------------------------------------------------------
Next ==
  \/ \E l \in Lines : ReadLine(l)
  \/ EndOfInput
  \/ DelegateInLoop
  \/ DelegateLast
  \/ DrainResult
  \/ DrainSentinel
  \/ \E p \in 1..Len(procs) : WorkerRecv(p)
  \/ \E p \in 1..Len(procs) : WorkerProcess(p)

Spec == Init /\ [][Next]_vars

----------------------------------------------------------------------------
\* Notions the properties are stated with

Range(f) == {f[i] : i \in DOMAIN f}

\* The Jobs on which a worker failed.
Raised == {k \in 1..Len(computed) : computed[k].state = "raised"}

NoWorkerFailure == Raised = {}

\* main has finished, or has been ended by an uncaught exception.
RunOver == pc \in {"done", "crashed"}

\* The Jobs sent to process p whose Result main has not received.
InFlight(p) ==
  Cardinality({i \in 1..Len(procs[p].inbox) : procs[p].inbox[i].type = "job"})
  + (IF procs[p].state = "busy" THEN 1 ELSE 0)
  + Len(procs[p].outbox)

RECURSIVE SumInFlight(_)
SumInFlight(n) == IF n = 0 THEN 0 ELSE InFlight(n) + SumInFlight(n - 1)

\* The output blocks of the first n Jobs, one after the other; skip is a set of
\* Jobs left out.
RECURSIVE Blocks(_, _)
Blocks(n, skip) ==
  IF n = 0 THEN <<>>
  ELSE Blocks(n - 1, skip) \o (IF n \in skip THEN <<>> ELSE computed[n].output)

NonEmptyBlocks == {k \in 1..Len(computed) : computed[k].output # <<>>}

----------------------------------------------------------------------------
\* C1: without worker failures the run terminates for every pool size N >= 1
\* and every finite input: main never stops short of the end, every worker
\* having received the shutdown sentinel and exited.  Stated as: a state with
\* no worker failure either is the terminated one or has a step to take.
C1_RunTerminates ==
  \/ ~NoWorkerFailure
  \/ ENABLED Next
  \/ /\ pc = "done"
     /\ \A p \in 1..Len(procs) : procs[p].state = "exited"

C3_OneJobInFlightPerWorker ==
  /\ \A p \in 1..Len(procs) : InFlight(p) <= 1
  /\ SumInFlight(Len(procs)) <= processes
  /\ \A k \in 1..Len(sent) : sent[k].slot = (k - 1) % processes

\* Every worker of a pool of two or more has a Job in flight, after delegate
\* has received a previous Result.
C3_Witness ==
  /\ processes >= 2
  /\ stats.duplexes > processes
  /\ SumInFlight(Len(procs)) = processes

\* C4: a worker failing on any job, the last one it receives included, does
\* not crash main.
C4_SchedulerSurvivesWorkerFailure == pc # "crashed"

\* C5: when exactly one worker failed, on duplex d, and the run is over and
\* every Job has been processed, the output is the concatenation of the blocks
\* of all the other submitted duplexes, each once, and holds nothing of d.
C5_OnlyFailedDuplexLost ==
  (/\ RunOver
   /\ Cardinality(Raised) = 1
   /\ \A k \in 1..Len(computed) : computed[k].state # "pending")
  => out = Blocks(Len(sent), Raised)

\* C6: a duplex of more than two order labels aborts the run: no run in which
\* process_duplex met one comes to its normal end.
C6_MoreThanTwoOrdersAborts ==
  pc = "done" => \A k \in 1..Len(sent) : (computed[k].state # "pending" => Len(sent[k].duplex) <= 2)

----------------------------------------------------------------------------
\* The input as the grouper is specified to see it

\* The positions of the well-formed lines.
WellFormedRows == {i \in 1..Len(rows) : rows[i].nf = 8}

\* The maximal runs of consecutive well-formed lines sharing a barcode, among
\* the first n lines: each the list of its positions.
RECURSIVE RunsOf(_)
RunsOf(n) ==
  IF n = 0 THEN <<>>
  ELSE LET prev == RunsOf(n - 1)
       IN IF rows[n].nf # 8 THEN prev
          ELSE IF Len(prev) > 0 /\ rows[prev[Len(prev)][1]].bar = rows[n].bar
          THEN [prev EXCEPT ![Len(prev)] = Append(@, n)]
          ELSE Append(prev, <<n>>)

Runs == RunsOf(Len(rows))

\* The order labels of a run, in the order they are first met.
RECURSIVE OrdersOf(_, _)
OrdersOf(run, n) ==
  IF n = 0 THEN <<>>
  ELSE LET prev == OrdersOf(run, n - 1)
       IN IF rows[run[n]].ord \in Range(prev) THEN prev
          ELSE Append(prev, rows[run[n]].ord)

\* The well-formed lines of a (barcode, order) pair are contiguous.
FamiliesContiguous ==
  \A i, j, k \in WellFormedRows :
    (i < j /\ j < k /\ rows[i].bar = rows[k].bar /\ rows[i].ord = rows[k].ord)
    => (rows[j].bar = rows[i].bar /\ rows[j].ord = rows[i].ord)

\* The well-formed lines of a barcode are contiguous.
BarcodesContiguous ==
  \A i, j, k \in WellFormedRows :
    (i < j /\ j < k /\ rows[i].bar = rows[k].bar) => rows[j].bar = rows[i].bar

\* main is past its last call of delegate: every unit has been emitted.
AllEmitted == pc \in {"drain", "done", "crashed"}

\* The (unit, family) places of the emitted duplexes that hold read pair i.
PlacesOf(i) ==
  {ke \in {<<k, e>> : k \in 1..Len(sent), e \in 1..2 * MaxRows} :
     /\ ke[2] <= Len(sent[ke[1]].duplex)
     /\ i \in Range(sent[ke[1]].duplex[ke[2]].val)}

\* Read pair i is in exactly one family of exactly one emitted duplex, once,
\* under its own barcode and order.
HeldOnce(i) ==
  /\ Cardinality(PlacesOf(i)) = 1
  /\ \A ke \in PlacesOf(i) :
       LET unit == sent[ke[1]]
           entry == unit.duplex[ke[2]]
       IN /\ unit.barcode = rows[i].bar
          /\ entry.key = rows[i].ord
          /\ Cardinality({j \in 1..Len(entry.val) : entry.val[j] = i}) = 1

----------------------------------------------------------------------------
\* C7: the units emitted are, in input order, one per maximal run of
\* consecutive well-formed lines sharing a barcode (after the unit of the
\* initial state, of barcode None, that the first line or the end of an empty
\* input emits), each carrying its run's barcode; every read pair under
\* Duplex[o] is a line of that run with order o; and the last run is sealed and
\* emitted once, at the end of the stream.
C7_OneUnitPerRun ==
  LET runs == Runs
      ending == IF pc = "delegate" THEN Len(runs) - 1
                ELSE IF pc \in {"loop", "last_delegate"} THEN Len(runs)
                ELSE Len(runs) + 1
  IN /\ Len(sent) = ending
     /\ Len(sent) > 0 =>
          (sent[1].barcode = None /\ sent[1].duplex = <<[key |-> None, val |-> <<>>]>>)
     /\ \A k \in 2..Len(sent) :
          LET run == runs[k - 1]
              d == sent[k].duplex
          IN /\ sent[k].barcode = rows[run[1]].bar
             /\ \A e \in 1..Len(d) : \A j \in 1..Len(d[e].val) :
                  /\ d[e].val[j] \in Range(run)
                  /\ rows[d[e].val[j]].ord = d[e].key
             /\ \E e \in 1..Len(d) : run[Len(run)] \in Range(d[e].val)

\* The stream has ended after a run of two orders followed by a run of another
\* barcode.
C7_Witness ==
  /\ AllEmitted
  /\ Len(Runs) >= 2
  /\ Len(sent) = 3
  /\ Len(sent[2].duplex) = 2

\* C8 as stated: when the lines of a barcode are contiguous, whatever the
\* arrangement of the order labels inside a barcode, every well-formed line's
\* read pair is in exactly one family of exactly one emitted duplex.
C8_NoPairDroppedBarcodeSorted ==
  (AllEmitted /\ BarcodesContiguous) => \A i \in WellFormedRows : HeldOnce(i)

\* C8 amended: when the lines of every (barcode, order) pair are contiguous,
\* every well-formed line's read pair is in exactly one family of exactly one
\* emitted duplex, under its own barcode and order.
C8_NoPairDroppedFamilySorted ==
  (AllEmitted /\ FamiliesContiguous) => \A i \in WellFormedRows : HeldOnce(i)

\* A sorted input with a duplex of two orders, one of them of two read pairs.
C8_Witness ==
  /\ AllEmitted
  /\ FamiliesContiguous
  /\ \E k \in 1..Len(sent) :
       /\ Len(sent[k].duplex) = 2
       /\ Len(sent[k].duplex[1].val) = 2

----------------------------------------------------------------------------
\* The lines of an output block

\* The (mate, order) of each line.
MateOrder(lines) == [i \in 1..Len(lines) |-> <<lines[i].mate, lines[i].ord>>]

Rep(x, n) == [i \in 1..n |-> x]

\* One line per read pair of the family for each entry of the pattern from
\* entry i on, in pattern order, the entries in absent contributing none.
RECURSIVE PatternLines(_, _, _, _)
PatternLines(d, pattern, absent, i) ==
  IF i > Len(pattern) THEN <<>>
  ELSE (IF i \in absent THEN <<>> ELSE Rep(pattern[i], Len(Get(d, pattern[i][2]))))
       \o PatternLines(d, pattern, absent, i + 1)

OneStrand(o) == << <<1, o>>, <<2, o>> >>

CrissCross(o1, o2) == << <<1, o1>>, <<2, o2>>, <<2, o1>>, <<1, o2>> >>

\* The entries of a pattern whose family has two or more read pairs: the ones
\* whose alignment can be absent.
Aligned(d, pattern) == {i \in 1..Len(pattern) : Len(Get(d, pattern[i][2])) > 1}

\* The number of lines of a block none of whose entries is absent.
FullLength(d) == 2 * (Len(d[1].val) + (IF Len(d) > 1 THEN Len(d[2].val) ELSE 0))

\* The Jobs a worker has returned a block for.
Returned == {k \in 1..Len(computed) : computed[k].state = "returned"}

\* Unit k holds the orders ab and ba and nothing else, two or more read pairs each.
BothStrands(k) ==
  /\ Len(sent[k].duplex) = 2
  /\ Range(Keys(sent[k].duplex)) = {"ab", "ba"}
  /\ Len(sent[k].duplex[1].val) >= 2
  /\ Len(sent[k].duplex[2].val) >= 2

----------------------------------------------------------------------------
\* C9: the lines of every emitted duplex's block are in the (mate, order)
\* pattern of its class: none for the unit without orders, (1,O) (2,O) for one
\* order, (1,O1) (2,O2) (2,O1) (1,O2) for two, O1 being the order label met
\* first in the input lines of that barcode and O2 the second; an entry whose
\* alignment is absent has no lines and the others keep their places.
C9_BlockFollowsPattern ==
  \A k \in Returned :
    LET lines == computed[k].output
        d == sent[k].duplex
    IN IF k = 1 THEN lines = <<>>
       ELSE LET ords == OrdersOf(Runs[k - 1], Len(Runs[k - 1]))
                pattern == IF Len(ords) = 1 THEN OneStrand(ords[1])
                           ELSE CrissCross(ords[1], ords[2])
            IN /\ Len(ords) \in {1, 2}
               /\ \A i \in 1..Len(lines) : lines[i].bar = sent[k].barcode
               /\ \E absent \in SUBSET Aligned(d, pattern) :
                    MateOrder(lines) = PatternLines(d, pattern, absent, 1)

\* A block of a duplex of two orders with some entry absent and some not.
C9_Witness ==
  \E k \in Returned :
    /\ Len(sent[k].duplex) = 2
    /\ Len(computed[k].output) > 0
    /\ Len(computed[k].output) < FullLength(sent[k].duplex)

\* C10 as stated: a duplex of ab and ba, two or more reads each, every
\* alignment there, has its lines grouped mate1/ab, mate2/ba, mate2/ab,
\* mate1/ba, whichever of the two orders comes first in the input.
C10_AbFirstWhicheverOrder ==
  \A k \in Returned :
    (BothStrands(k) /\ Len(computed[k].output) = FullLength(sent[k].duplex))
    => MateOrder(computed[k].output)
         = PatternLines(sent[k].duplex, CrissCross("ab", "ba"), {}, 1)

\* C10 amended: the groups are mate1/O1, mate2/O2, mate2/O1, mate1/O2 where O1
\* is the one of ab and ba that comes first in the input lines of the barcode
\* and O2 the other, a group whose alignment failed being absent.
C10_FirstOrderInInputLeads ==
  \A k \in Returned :
    BothStrands(k) =>
      LET o1 == rows[Runs[k - 1][1]].ord
          o2 == IF o1 = "ab" THEN "ba" ELSE "ab"
      IN \E absent \in SUBSET (1..4) :
           MateOrder(computed[k].output)
             = PatternLines(sent[k].duplex, CrissCross(o1, o2), absent, 1)

\* A block, every alignment there, of a duplex whose lines of order ba come
\* before those of order ab.
C10_Witness ==
  \E k \in Returned :
    /\ BothStrands(k)
    /\ rows[Runs[k - 1][1]].ord = "ba"
    /\ Len(computed[k].output) = FullLength(sent[k].duplex)

----------------------------------------------------------------------------
\* The lines of the blocks computed for the units of the input: what the run
\* with one worker writes (C2 with processes = 1, a run that always ends).
RECURSIVE BlockLines(_)
BlockLines(n) ==
  IF n = 0 THEN {} ELSE BlockLines(n - 1) \cup Range(computed[n].output)

RECURSIVE BlockLength(_)
BlockLength(n) ==
  IF n = 0 THEN 0 ELSE BlockLength(n - 1) + Len(computed[n].output)

\* The read pairs main holds in family and duplex, and those of the units sent.
PairsHeld ==
  Range(family)
  \cup UNION {Range(duplex[e].val) : e \in 1..Len(duplex)}
  \cup UNION {UNION {Range(sent[k].duplex[e].val) : e \in 1..Len(sent[k].duplex)} :
                k \in 1..Len(sent)}

\* C11: without worker failures a run with any pool size N emits the blocks
\* the run with pool size 1 emits, with the same contents, also when the input
\* yields fewer duplexes than N: once the run can go no further, the output
\* holds every line of every block of the input's units, once.
C11_SameBlocksForEveryPoolSize ==
  (NoWorkerFailure /\ AllEmitted /\ ~ENABLED Next) =>
    /\ Range(out) = BlockLines(Len(sent))
    /\ Len(out) = BlockLength(Len(sent))

\* C12: a line whose field count is not 8 is skipped without any change of
\* state: the step that reads it changes nothing but the position in the
\* input, so that the units emitted, the pairs counter and the output are
\* those of the stream without it; no read pair is ever taken from such a line.
C12_MalformedLineSkipped ==
  /\ [](PairsHeld \subseteq WellFormedRows)
  /\ [][(Len(rows') = Len(rows) + 1 /\ rows'[Len(rows')].nf # 8)
          => UNCHANGED <<processes, pc, line, barcode, order, family, duplex, stats,
                         current_worker_i, drain_i, workers, procs, out, err, sent,
                         computed>>]_vars

\* A malformed line between two lines of one family, both in main's family.
C12_Witness ==
  /\ Len(rows) = 3
  /\ rows[2].nf # 8
  /\ family = <<1, 3>>

\* C13: at the end of a run stats['duplexes'] is the number of duplexes of the
\* input, the maximal runs of well-formed lines sharing a barcode (0 for the
\* empty input), and stats['pairs'] the number of well-formed lines.
C13_CountersMatchInput ==
  pc = "done" =>
    /\ stats.duplexes = Len(Runs)
    /\ stats.pairs = Cardinality(WellFormedRows)

----------------------------------------------------------------------------
\* Notions of the worker protocol

\* The Jobs on which process p failed.
RaisedBy(p) == {k \in Raised : sent[k].proc = p}

\* The shutdown sentinels sent to process p: those unread and the one read.
ShutdownsSent(p) ==
  Cardinality({i \in 1..Len(procs[p].inbox) : procs[p].inbox[i].type = "shutdown"})
  + (IF procs[p].state = "exited" THEN 1 ELSE 0)

\* This step receives the failure sentinel of process p.
SentinelReceivedFrom(p) ==
  /\ Len(procs[p].outbox) > 0
  /\ Head(procs[p].outbox).type = "sentinel"
  /\ procs'[p].outbox = Tail(procs[p].outbox)

\* The pattern of a duplex of one or two orders, from its keys.
PatternOf(d) ==
  IF Len(d) = 1 THEN OneStrand(d[1].key) ELSE CrissCross(d[1].key, d[2].key)

RECURSIVE SumSizes(_, _, _)
SumSizes(d, pattern, i) ==
  IF i > Len(pattern) THEN 0
  ELSE (IF i \in Aligned(d, pattern) THEN Len(Get(d, pattern[i][2])) ELSE 0)
       + SumSizes(d, pattern, i + 1)

RECURSIVE SumRuns(_)
SumRuns(n) == IF n = 0 THEN 0 ELSE computed[n].run_stats.runs + SumRuns(n - 1)

RECURSIVE SumAlignedPairs(_)
SumAlignedPairs(n) ==
  IF n = 0 THEN 0 ELSE computed[n].run_stats.aligned_pairs + SumAlignedPairs(n - 1)

----------------------------------------------------------------------------
\* C16: the pool always has N slots, each with its own process; no Job and no
\* shutdown sentinel is sent to a worker that has sent the failure sentinel;
\* and when delegate receives the sentinel from the worker of slot i it logs
\* the death, puts a fresh worker in slot i, sends the new Job to it, and adds
\* nothing to the output or the statistics.
C16_DeadWorkerReplaced ==
  /\ [](/\ Len(workers) = processes
        /\ \A i, j \in 1..Len(workers) : i # j => workers[i] # workers[j]
        /\ \A p \in 1..Len(procs) :
             RaisedBy(p) # {} => (procs[p].inbox = <<>> /\ ShutdownsSent(p) = 0))
  /\ [][\A p \in 1..Len(procs) :
          (pc \in {"delegate", "last_delegate"} /\ SentinelReceivedFrom(p)) =>
            LET i == current_worker_i' + 1
                fresh == Len(procs) + 1
            IN /\ workers[i] = p
               /\ Len(procs') = fresh
               /\ workers' = [workers EXCEPT ![i] = fresh]
               /\ procs'[fresh].state = "waiting"
               /\ procs'[fresh].inbox = <<Job(duplex, barcode, Len(sent'))>>
               /\ procs'[p].inbox = <<>>
               /\ err' = Append(err, p)
               /\ out' = out
               /\ stats'.runs = stats.runs
               /\ stats'.aligned_pairs = stats.aligned_pairs]_vars

\* A worker has been replaced and the replacement has received its Job.
C16_Witness ==
  /\ Len(procs) > processes
  /\ Len(err) = 1
  /\ procs[Len(procs)].received = 1

\* C17: on each worker's channel the messages alternate: a worker has sent one
\* message for every Job it received, but for the one it is processing; a
\* worker that failed on a Job has sent the sentinel and is terminated; a
\* terminated worker receives and sends nothing more; and the step that takes
\* the shutdown sentinel sends nothing.
C17_WorkerMessagesAlternate ==
  /\ [](\A p \in 1..Len(procs) :
          /\ procs[p].replies
               = procs[p].received - (IF procs[p].state = "busy" THEN 1 ELSE 0)
          /\ RaisedBy(p) # {} <=> procs[p].state = "dead")
  /\ [][\A p \in 1..Len(procs) :
          /\ procs[p].state \in {"dead", "exited"} =>
               /\ procs'[p].state = procs[p].state
               /\ procs'[p].received = procs[p].received
               /\ procs'[p].replies = procs[p].replies
               /\ Len(procs'[p].inbox) >= Len(procs[p].inbox)
               /\ Len(procs'[p].outbox) <= Len(procs[p].outbox)
          /\ (procs[p].state # "exited" /\ procs'[p].state = "exited") =>
               /\ procs'[p].outbox = procs[p].outbox
               /\ procs'[p].replies = procs[p].replies]_vars

\* A worker answered one Job, failed on its second and sent the sentinel; its
\* replacement answered a Job and exited on the shutdown sentinel.
C17_Witness ==
  /\ \E p \in 1..Len(procs) :
       procs[p].state = "dead" /\ procs[p].received = 2 /\ procs[p].replies = 2
  /\ \E p \in 1..Len(procs) :
       procs[p].state = "exited" /\ procs[p].received = 1 /\ procs[p].replies = 1

C19_AlignerFailureIsNotAnError ==
  /\ \A k \in 1..Len(computed) :
       computed[k].state # "pending" =>
         LET d == sent[k].duplex
         IN /\ computed[k].state = "raised" <=> Len(d) > 2
            /\ (computed[k].state = "returned" /\ k > 1) =>
                 MateOrder(computed[k].output)
                   = PatternLines(d, PatternOf(d), computed[k].bad, 1)
  /\ \A p \in 1..Len(procs) : procs[p].state = "dead" => RaisedBy(p) # {}

\* A block lacking an entry whose alignment failed, and a later Job answered
\* by the same worker.
C19_Witness ==
  \E k \in Returned :
    /\ computed[k].bad # {}
    /\ computed[k].output # <<>>
    /\ \E j \in Returned : j > k /\ sent[j].proc = sent[k].proc

\* C20: a duplex's run_stats.runs is the number of pattern entries whose family
\* has more than one read pair and run_stats.aligned_pairs the sum of those
\* families' sizes over those entries, families of one adding nothing; and at
\* the end of a run without worker failures stats['runs'] and
\* stats['aligned_pairs'] are the sums over the submitted duplexes, each once.
C20_RunStatsCountMultiReadEntries ==
  /\ \A k \in Returned :
       LET d == sent[k].duplex
       IN IF k = 1 THEN computed[k].run_stats = EmptyRunStats
          ELSE /\ computed[k].run_stats.runs = Cardinality(Aligned(d, PatternOf(d)))
               /\ computed[k].run_stats.aligned_pairs = SumSizes(d, PatternOf(d), 1)
  /\ (pc = "done" /\ NoWorkerFailure) =>
       /\ stats.runs = SumRuns(Len(sent))
       /\ stats.aligned_pairs = SumAlignedPairs(Len(sent))

\* A finished run with a duplex of a family of two and a family of one.
C20_Witness ==
  /\ pc = "done"
  /\ NoWorkerFailure
  /\ stats.runs = 2
  /\ stats.aligned_pairs = 4
  /\ \E k \in Returned : Len(sent[k].duplex) = 2

----------------------------------------------------------------------------
\* One call of align_family and the format_msa of its result, character by
\* character.  A string is a sequence of one-character strings.

MaxReads == 2    \* read pairs in the family
MaxSeq == 2      \* bases in a read
LineWidth == 2   \* bases on a line of MAFFT's output

Bases == {"A", "c"}
Quals == {"!", "-"}

\* str.upper() and the lower case MAFFT prints, on the characters used here.
Upper(ch) ==
  CASE ch = "a" -> "A" [] ch = "c" -> "C" [] ch = "g" -> "G" [] ch = "t" -> "T"
    [] OTHER -> ch

Lower(ch) ==
  CASE ch = "A" -> "a" [] ch = "C" -> "c" [] ch = "G" -> "g" [] ch = "T" -> "t"
    [] OTHER -> ch

UpperStr(str) == [i \in 1..Len(str) |-> Upper(str[i])]
LowerStr(str) == [i \in 1..Len(str) |-> Lower(str[i])]

\* The mate 1 of a read pair: a sequence and as many quality characters.
Mates1 ==
  UNION {{[seq |-> sq, qual |-> q] : sq \in [1..n -> Bases], q \in [1..n -> Quals]}
           : n \in 1..MaxSeq}

Mates2 ==
  {[seq |-> <<"T">>, qual |-> <<"#">>], [seq |-> <<"g", "T">>, qual |-> <<"#", "-">>]}

Digit == <<"1", "2", "3", "4">>

\* The i-th read pair of a family, as main builds it from a line's fields.
Pair(i, m1, m2) ==
  [name1 |-> <<"r", Digit[i]>>, seq1 |-> m1.seq, qual1 |-> m1.qual,
   name2 |-> <<"s", Digit[i]>>, seq2 |-> m2.seq, qual2 |-> m2.qual]

Families ==
  UNION {{[i \in 1..n |-> Pair(i, m1[i], m2[i])] : m1 \in [1..n -> Mates1],
                                                     m2 \in [1..n -> Mates2]}
           : n \in 0..MaxReads}

\* pair['name'+mate], pair['seq'+mate], pair['qual'+mate]
NameOf(pair, mate) == IF mate = 1 THEN pair.name1 ELSE pair.name2
SeqOf(pair, mate) == IF mate = 1 THEN pair.seq1 ELSE pair.seq2
QualOf(pair, mate) == IF mate = 1 THEN pair.qual1 ELSE pair.qual2

\* The family's mate 1 qualities whatever the mate.
QualsRawMate1(fam, mate) == [i \in 1..Len(fam) |-> fam[i].qual1]

\* quals_raw of align_family
QualsRaw(fam, mate) == [i \in 1..Len(fam) |-> QualOf(fam[i], mate)]

\* The lines make_msa writes to family_file: '>'+name, then seq, per pair.
RECURSIVE FastaLines(_, _, _)
FastaLines(fam, mate, i) ==
  IF i > Len(fam) THEN <<>>
  ELSE << <<">">> \o NameOf(fam[i], mate), SeqOf(fam[i], mate) >>
       \o FastaLines(fam, mate, i + 1)

\* read_fasta's loop over fasta_lines from line i on.  The lines here hold no
\* blanks and no line ends, so strip() and rstrip() leave them as they are.
RECURSIVE read_fasta_loop(_, _, _, _, _, _)
read_fasta_loop(fasta_lines, i, upper, sequences, sequence, seq_name) ==
  LET cased == IF upper THEN UpperStr(sequence) ELSE sequence
      kept == IF cased # <<>>
              THEN Append(sequences, [name |-> seq_name, seq |-> cased])
              ELSE sequences
  IN IF i > Len(fasta_lines) THEN kept
     ELSE IF fasta_lines[i] # <<>> /\ Head(fasta_lines[i]) = ">"
     THEN read_fasta_loop(fasta_lines, i + 1, upper, kept, <<>>, Tail(fasta_lines[i]))
     ELSE read_fasta_loop(fasta_lines, i + 1, upper, sequences,
                          sequence \o fasta_lines[i], seq_name)

read_fasta(fasta_lines, upper) == read_fasta_loop(fasta_lines, 1, upper, <<>>, <<>>, None)

\* str without the characters at the positions where seq has a gap.
RECURSIVE RemoveGaps(_, _)
RemoveGaps(seq, str) ==
  IF seq = <<>> \/ str = <<>> THEN <<>>
  ELSE (IF Head(seq) = "-" THEN <<>> ELSE <<Head(str)>>)
       \o RemoveGaps(Tail(seq), Tail(str))

\* The ways to pad str with gaps to length n.
Gapped(str, n) ==
  {g \in [1..n -> {str[i] : i \in 1..Len(str)} \cup {"-"}] : RemoveGaps(g, g) = str}

RECURSIVE GappedAll(_, _)
GappedAll(seqs, n) ==
  IF seqs = <<>> THEN {<<>>}
  ELSE {<<g>> \o rest : g \in Gapped(Head(seqs), n), rest \in GappedAll(Tail(seqs), n)}

RECURSIVE SumLen(_)
SumLen(seqs) == IF seqs = <<>> THEN 0 ELSE Len(Head(seqs)) + SumLen(Tail(seqs))

\* The alignments MAFFT can make of seqs: every sequence padded with gaps to
\* one length, in the order of the input, no column all gaps.
Alignments(seqs) ==
  UNION {{a \in GappedAll(seqs, n) : \A c \in 1..n : \E i \in 1..Len(a) : a[i][c] # "-"}
           : n \in 1..SumLen(seqs)}

RECURSIVE Wrap(_)
Wrap(str) ==
  IF Len(str) <= LineWidth THEN <<str>>
  ELSE <<SubSeq(str, 1, LineWidth)>> \o Wrap(SubSeq(str, LineWidth + 1, Len(str)))

\* What MAFFT prints for the records it read and the alignment a it made of
\* them: per record the name line, then the padded sequence in lower case,
\* LineWidth characters to a line.
RECURSIVE MafftPrint(_, _, _)
MafftPrint(records, a, i) ==
  IF i > Len(records) THEN <<>>
  ELSE << <<">">> \o records[i].name >> \o Wrap(a[i]) \o MafftPrint(records, a, i + 1)

\* The outputs of mafft --nuc --quiet on the file.
Mafft(file_lines) ==
  LET records == read_fasta(file_lines, FALSE)
      seqs == [i \in 1..Len(records) |-> LowerStr(records[i].seq)]
  IN {MafftPrint(records, a, 1) : a \in Alignments(seqs)}

\* seqtools.transfer_gaps_multi for one read: a blank at each gap of the
\* aligned sequence, else the next character of the raw quality.
RECURSIVE transfer_gaps(_, _)
transfer_gaps(qual_raw, seq) ==
  IF seq = <<>> THEN <<>>
  ELSE IF Head(seq) = "-" THEN <<" ">> \o transfer_gaps(qual_raw, Tail(seq))
  ELSE <<Head(qual_raw)>> \o transfer_gaps(Tail(qual_raw), Tail(seq))

transfer_gaps_multi(quals_raw, seqs) ==
  [i \in 1..Len(seqs) |-> transfer_gaps(quals_raw[i], seqs[i])]

\* It fails when a sequence's bases are not as many as its raw quality.
GapsFit(quals_raw, seqs) ==
  /\ Len(quals_raw) = Len(seqs)
  /\ \A i \in 1..Len(seqs) : Len(RemoveGaps(seqs[i], seqs[i])) = Len(quals_raw[i])

Min(a, b) == IF a < b THEN a ELSE b

\* zip(seq_alignment, qual_alignment) into {'name', 'seq', 'qual'}
Zip(seq_align, qual_align) ==
  [i \in 1..Min(Len(seq_align), Len(qual_align)) |->
     [name |-> seq_align[i].name, seq |-> seq_align[i].seq, qual |-> qual_align[i]]]

\* A family of one goes to MAFFT like any other.
TrivialFamilyNever(n) == FALSE

\* elif len(family) == 1
TrivialFamily(n) == n = 1

\* format_msa with every field of a line.
FormatMsa(align, bar, ord, mate) ==
  [i \in 1..Len(align) |->
     [bar |-> bar, ord |-> ord, mate |-> mate,
      name |-> align[i].name, seq |-> align[i].seq, qual |-> align[i].qual]]

AlignInit ==
  /\ MainInit
  /\ processes = 1
  /\ af_pc = "make_msa"
  /\ af_family \in Families
  /\ af_mate \in {1, 2}
  /\ family_file = [exists |-> FALSE, lines |-> <<>>]
  /\ mafft_output = <<>>
  /\ seq_alignment = <<>>
  /\ af_alignment = NoAlignment
  /\ msa_lines = <<>>
  /\ mafft_calls = 0

\* make_msa up to the call of MAFFT
MakeMsa ==
  /\ af_pc = "make_msa"
  /\ IF Len(af_family) = 0
     THEN /\ af_pc' = "returned"
          /\ UNCHANGED <<family_file, seq_alignment>>
     ELSE IF TrivialFamily(Len(af_family))
     THEN /\ seq_alignment' = <<[name |-> NameOf(af_family[1], af_mate),
                                 seq |-> SeqOf(af_family[1], af_mate)]>>
          /\ af_pc' = "transfer"
          /\ UNCHANGED family_file
     ELSE /\ family_file' = [exists |-> TRUE, lines |-> FastaLines(af_family, af_mate, 1)]
          /\ af_pc' = "mafft"
          /\ UNCHANGED seq_alignment
  /\ UNCHANGED <<af_family, af_mate, mafft_output, af_alignment, msa_lines, mafft_calls>>
  /\ UNCHANGED mvars

\* The call of MAFFT fails, and make_msa and align_family return None.
MafftFails ==
  /\ af_pc = "mafft"
  /\ mafft_calls' = mafft_calls + 1
  /\ af_pc' = "returned"
  /\ UNCHANGED <<af_family, af_mate, family_file, mafft_output, seq_alignment,
                 af_alignment, msa_lines>>
  /\ UNCHANGED mvars

\* The call of MAFFT returns its output, and make_msa removes the file.
MafftReturns ==
  /\ af_pc = "mafft"
  /\ mafft_calls' = mafft_calls + 1
  /\ \E printed \in Mafft(family_file.lines) : mafft_output' = printed
  /\ family_file' = [exists |-> FALSE, lines |-> <<>>]
  /\ af_pc' = "read_fasta"
  /\ UNCHANGED <<af_family, af_mate, seq_alignment, af_alignment, msa_lines>>
  /\ UNCHANGED mvars

\* return read_fasta(output, is_file=False, upper=True)
ReadFasta ==
  /\ af_pc = "read_fasta"
  /\ seq_alignment' = read_fasta(mafft_output, TRUE)
  /\ af_pc' = "transfer"
  /\ UNCHANGED <<af_family, af_mate, family_file, mafft_output, af_alignment, msa_lines,
                 mafft_calls>>
  /\ UNCHANGED mvars

\* align_family after make_msa: the gaps go to the qualities, and the two
\* lists are zipped.
TransferGaps ==
  /\ af_pc = "transfer"
  /\ LET seqs == [i \in 1..Len(seq_alignment) |-> seq_alignment[i].seq]
         quals_raw == QualsRaw(af_family, af_mate)
     IN IF GapsFit(quals_raw, seqs)
        THEN /\ af_alignment' = [none |-> FALSE,
                                 recs |-> Zip(seq_alignment,
                                              transfer_gaps_multi(quals_raw, seqs))]
             /\ af_pc' = "returned"
        ELSE /\ af_pc' = "raised"
             /\ UNCHANGED af_alignment
  /\ UNCHANGED <<af_family, af_mate, family_file, mafft_output, seq_alignment, msa_lines,
                 mafft_calls>>
  /\ UNCHANGED mvars

\* process_duplex with the alignment: format_msa unless it is None.
FormatAlignment ==
  /\ af_pc = "returned"
  /\ msa_lines' = IF af_alignment.none THEN <<>>
                  ELSE FormatMsa(af_alignment.recs, "A", "ab", af_mate)
  /\ af_pc' = "done"
  /\ UNCHANGED <<af_family, af_mate, family_file, mafft_output, seq_alignment,
                 af_alignment, mafft_calls>>
  /\ UNCHANGED mvars

AlignNext ==
  \/ MakeMsa
  \/ MafftFails
  \/ MafftReturns
  \/ ReadFasta
  \/ TransferGaps
  \/ FormatAlignment

AlignSpec == AlignInit /\ [][AlignNext]_vars

----------------------------------------------------------------------------
\* Properties of the alignment returned by align_family

AlignmentReturned == af_pc \in {"returned", "done"} /\ ~af_alignment.none

\* Sequence and quality have one length, the same for every record.
OneLength ==
  \A i, j \in 1..Len(af_alignment.recs) :
    /\ Len(af_alignment.recs[i].seq) = Len(af_alignment.recs[i].qual)
    /\ Len(af_alignment.recs[i].seq) = Len(af_alignment.recs[j].seq)

\* The i-th record is the i-th read of the family: its name, and its raw
\* quality once the gap positions of the sequence are removed.
SameRead ==
  /\ Len(af_alignment.recs) = Len(af_family)
  /\ \A i \in 1..Len(af_alignment.recs) :
       /\ af_alignment.recs[i].name = NameOf(af_family[i], af_mate)
       /\ RemoveGaps(af_alignment.recs[i].seq, af_alignment.recs[i].qual)
            = QualOf(af_family[i], af_mate)
       /\ \A c \in 1..Len(af_alignment.recs[i].seq) :
            af_alignment.recs[i].seq[c] = "-" <=> af_alignment.recs[i].qual[c] = " "

\* C14 as stated: every record of an alignment has len(seq) = len(qual), the
\* records have one length, the i-th record is the i-th read, and removing the
\* gap positions of seq from seq and qual gives the read's raw sequence and
\* raw quality.
C14_GapRemovalGivesRawRead ==
  AlignmentReturned =>
    /\ OneLength
    /\ SameRead
    /\ \A i \in 1..Len(af_alignment.recs) :
         RemoveGaps(af_alignment.recs[i].seq, af_alignment.recs[i].seq)
           = SeqOf(af_family[i], af_mate)

\* C14 amended: ... removing the gap positions gives the read's raw quality,
\* and the read's raw sequence as it is for a family of one read, converted
\* to upper case for a family of two or more.
C14_GapRemovalGivesRawReadUppercased ==
  AlignmentReturned =>
    /\ OneLength
    /\ SameRead
    /\ \A i \in 1..Len(af_alignment.recs) :
         RemoveGaps(af_alignment.recs[i].seq, af_alignment.recs[i].seq)
           = IF Len(af_family) = 1 THEN SeqOf(af_family[i], af_mate)
             ELSE UpperStr(SeqOf(af_family[i], af_mate))

\* An alignment of two reads of different lengths, the shorter one padded, one
\* with a lower case base, read back from wrapped lines.
C14_Witness ==
  /\ AlignmentReturned
  /\ Len(af_family) = 2
  /\ Len(af_alignment.recs) = 2
  /\ Len(SeqOf(af_family[1], af_mate)) = 1
  /\ Len(af_alignment.recs[1].seq) = 3
  /\ \E c \in 1..2 : SeqOf(af_family[2], af_mate)[c] \notin {"A", "C", "G", "T"}
  /\ Len(mafft_output) = 6

\* C15: for a family of one read pair the result is one line per mate, with
\* the row's name, sequence and quality of that mate as they are and no gap,
\* and neither MAFFT nor its input file was used.
C15_SingleReadFamilyUnchanged ==
  (Len(af_family) = 1 /\ af_pc = "done") =>
    /\ msa_lines = <<[bar |-> "A", ord |-> "ab", mate |-> af_mate,
                      name |-> NameOf(af_family[1], af_mate),
                      seq |-> SeqOf(af_family[1], af_mate),
                      qual |-> QualOf(af_family[1], af_mate)]>>
    /\ \A c \in 1..Len(msa_lines[1].seq) : msa_lines[1].seq[c] # "-"
    /\ mafft_calls = 0
    /\ ~family_file.exists
    /\ mafft_output = <<>>

\* The line of mate 2 of a lone read pair with a lower case base.
C15_Witness ==
  /\ af_pc = "done"
  /\ Len(af_family) = 1
  /\ af_mate = 2
  /\ Len(msa_lines) = 1
  /\ msa_lines[1].seq = <<"g", "T">>
  /\ msa_lines[1].qual = <<"#", "-">>

\* make_msa has returned to align_family.
MakeMsaReturned == af_pc \in {"transfer", "returned", "raised", "done"}

\* C21: once make_msa has returned, the temporary file it wrote for a family
\* of two or more reads is removed, whether MAFFT returned its output or its
\* invocation failed and make_msa returned None.
C21_TempFileRemoved == MakeMsaReturned => ~family_file.exists

====
